---- MODULE Spec2Model ----
(***************************************************************************)
(* A model of atlas-packer's texture module (src/src/texture/mod.rs) and   *)
(* of the parallel packing example (src/examples/test_random_polygon.rs).  *)
(*                                                                         *)
(* Four specifications share the module:                                   *)
(*   Spec       single calls of the pure operations (DownsampleFactor::new,*)
(*              bbox_overlaps, ToplevelTexture::expand) on drawn inputs;   *)
(*   SpecMerge  a toplevel texture built by new and a chain of expands,    *)
(*              then queried with get_child;                               *)
(*   SpecCrop   ToplevelTexture::crop, chunk by chunk;                     *)
(*   SpecPack   the par_iter workers around the Mutex<AtlasPacker>.        *)
(***************************************************************************)
EXTENDS Integers, Sequences, FiniteSets, TLC

VARIABLES
    call,       \* Spec: the drawn inputs, then the call made on them and its result
    top,        \* the toplevel texture being built or cropped
    contrib,    \* the polygons top was built from, in merge order
    child,      \* the last get_child call and its result
    cpc,        \* crop: where the call of crop stands
    nthreads,   \* crop: rayon::current_num_threads()
    sent,       \* crop: the chunks whose closure has run
    senders,    \* crop: how many Sender handles of the channel are alive
    channel,    \* crop: the messages sent and not yet received
    order,      \* crop: the chunks in the order their messages were sent
    clipped,    \* crop: the ImageBuffer being assembled
    writes,     \* crop: how often put_pixel has written each position
    out,        \* crop: the dimensions of the image crop returns
    todo,       \* pack: the polygons par_iter has not handed to a worker yet
    wpc,        \* pack: where each worker stands in the closure
    witem,      \* pack: the polygon each worker is processing
    mutex,      \* pack: the workers holding the Mutex<AtlasPacker>
    added,      \* pack: the ids passed to add_texture, in order
    ppc         \* pack: where main stands

mergeVars == <<top, contrib, child>>
cropVars == <<cpc, nthreads, sent, senders, channel, order, clipped, writes, out>>
packVars == <<todo, wpc, witem, mutex, added, ppc>>
vars == <<call, mergeVars, cropVars, packVars>>

----------------------------------------------------------------------------
(* Bounds of the model.                                                    *)

\* Polygon vertices have x in 0..MaxCoord and y in 0..MaxY.
MaxCoord == 3
MaxY == 2
\* A toplevel texture is built from at most MaxMerge polygons.
MaxMerge == 2
\* The source image is ImageWidth x ImageHeight pixels.
ImageWidth == 3
ImageHeight == 3
\* rayon runs 1..MaxThreads worker threads.
MaxThreads == 3
\* The parallel packing example runs NumWorkers threads over NumPolygons
\* polygons.
NumWorkers == 2
NumPolygons == 3
\* f32 values are multiples of 2^-FracBits ...
FracBits == 3
\* ... with at most MantBits significant bits (24 in a real f32).
MantBits == 3

----------------------------------------------------------------------------
(* f32: a finite value is the integer k standing for k / 2^FracBits; NaN   *)
(* is a value of its own, unordered with every other.                      *)

RECURSIVE Pow2(_)
Pow2(n) == IF n = 0 THEN 1 ELSE 2 * Pow2(n - 1)

One == Pow2(FracBits)

F32(k) == [nan |-> FALSE, k |-> k]
NaN32 == [nan |-> TRUE, k |-> 0]

\* The number of bits of n > 0.
RECURSIVE BitLen(_)
BitLen(n) == IF n = 0 THEN 0 ELSE 1 + BitLen(n \div 2)

\* n >= 0 rounded to MantBits significant bits, ties to even: the rounding
\* of every f32 conversion and f32 operation.
RoundSig(n) ==
    IF BitLen(n) <= MantBits THEN n
    ELSE LET sh   == BitLen(n) - MantBits
             unit == Pow2(sh)
             q    == n \div unit
             r    == n % unit
             up   == (2 * r > unit) \/ (2 * r = unit /\ q % 2 = 1)
         IN  (IF up THEN q + 1 ELSE q) * unit

Representable(k) == RoundSig(IF k < 0 THEN -k ELSE k) = (IF k < 0 THEN -k ELSE k)

\* f32::max: the larger operand; a NaN operand is ignored.
F32Max(a, b) ==
    IF a.nan THEN b
    ELSE IF b.nan THEN a
    ELSE IF a.k >= b.k THEN a ELSE b

----------------------------------------------------------------------------
(* DownsampleFactor                                                        *)

Panic == [tag |-> "panic"]

DownsampleFactorNewClamped(factor) ==
    IF factor.nan THEN Panic
    ELSE [tag |-> "ok",
          value |-> F32(IF factor.k < 0 THEN 0
                        ELSE IF factor.k > One THEN One ELSE factor.k)]

\* DownsampleFactor::new: (0.0..=1.0).contains(factor), else panic!.
DownsampleFactorNew(factor) ==
    IF ~factor.nan /\ 0 <= factor.k /\ factor.k <= One
    THEN [tag |-> "ok", value |-> factor]
    ELSE Panic

\* DownsampleFactor::value
FactorValue(d) == d.value

----------------------------------------------------------------------------
(* PolygonMappedTexture                                                    *)

Min(a, b) == IF a <= b THEN a ELSE b
Max(a, b) == IF a >= b THEN a ELSE b

RECURSIVE SeqMin(_)
SeqMin(s) == IF Len(s) = 1 THEN s[1] ELSE Min(s[1], SeqMin(Tail(s)))
RECURSIVE SeqMax(_)
SeqMax(s) == IF Len(s) = 1 THEN s[1] ELSE Max(s[1], SeqMax(Tail(s)))

\* utils::calc_bbox: (min_x, min_y, max_x, max_y) of a non-empty point list.
CalcBbox(points) ==
    LET xs == [i \in 1..Len(points) |-> points[i][1]]
        ys == [i \in 1..Len(points) |-> points[i][2]]
    IN  <<SeqMin(xs), SeqMin(ys), SeqMax(xs), SeqMax(ys)>>

\* get_bbox: (min_x, min_y, width, height).
GetBbox(t) ==
    LET b == CalcBbox(t.pixel_coords)
    IN  <<b[1], b[2], b[3] - b[1], b[4] - b[2]>>

BboxOverlapsStrict(a, b) ==
    IF a.image_path # b.image_path THEN FALSE
    ELSE LET b1 == GetBbox(a)
             b2 == GetBbox(b)
         IN  ~(b1[1] + b1[3] <= b2[1] \/ b2[1] + b2[3] <= b1[1]
               \/ b1[2] + b1[4] <= b2[2] \/ b2[2] + b2[4] <= b1[2])

\* bbox_overlaps
BboxOverlaps(a, b) ==
    IF a.image_path # b.image_path THEN FALSE
    ELSE LET b1 == GetBbox(a)
             b2 == GetBbox(b)
         IN  ~(b1[1] + b1[3] < b2[1] \/ b2[1] + b2[3] < b1[1]
               \/ b1[2] + b1[4] < b2[2] \/ b2[2] + b2[4] < b1[2])

\* f64: a finite value is the exact quotient num / den of two small
\* integers (den > 0); a division by zero gives NaN (0.0 / 0.0) or an
\* infinity (x / 0.0, x > 0), as IEEE 754 division does.
F64NaN == [kind |-> "nan"]
F64Inf(sign) == [kind |-> "inf", sign |-> sign]
F64(num, den) == [kind |-> "num", num |-> num, den |-> den]

\* a as f64 / b as f64, for a, b >= 0
F64Div(a, b) ==
    IF b = 0 THEN (IF a = 0 THEN F64NaN ELSE F64Inf(1))
    ELSE F64(a, b)

\* 1.0 - q
F64OneMinus(q) ==
    IF q.kind = "nan" THEN F64NaN
    ELSE IF q.kind = "inf" THEN F64Inf(0 - q.sign)
    ELSE F64(q.den - q.num, q.den)

\* get_cropped_uv_coords(x, y, width, height); px - x and py - y are u32
\* subtractions, which get_child calls with x <= px and y <= py.
GetCroppedUvCoords(t, x, y, width, height) ==
    [i \in 1..Len(t.pixel_coords) |->
        <<F64Div(t.pixel_coords[i][1] - x, width),
          F64OneMinus(F64Div(t.pixel_coords[i][2] - y, height))>>]

----------------------------------------------------------------------------
(* ToplevelTexture                                                         *)

NoTexture == [tag |-> "None"]

\* ToplevelTexture::new
ToplevelNew(texture) ==
    LET bounding_box == GetBbox(texture)
    IN  [tag |-> "Some",
         image_path |-> texture.image_path,
         origin |-> <<bounding_box[1], bounding_box[2]>>,
         width |-> bounding_box[3],
         height |-> bounding_box[4],
         downsample_factor |-> texture.downsample_factor]

ToplevelExpandAnyPath(self, texture) ==
    LET bounding_box_0 == GetBbox(texture)
        min_x_0 == bounding_box_0[1]
        min_y_0 == bounding_box_0[2]
        max_x_0 == bounding_box_0[3]
        max_y_0 == bounding_box_0[4]
        min_x_1 == self.origin[1]
        min_y_1 == self.origin[2]
        max_x_1 == self.origin[1] + self.width
        max_y_1 == self.origin[2] + self.height
        min_x_new == Min(min_x_0, min_x_1)
        min_y_new == Min(min_y_0, min_y_1)
        max_x_new == Max(max_x_0, max_x_1)
        max_y_new == Max(max_y_0, max_y_1)
    IN  [tag |-> "Some",
         image_path |-> texture.image_path,
         origin |-> <<min_x_new, min_y_new>>,
         width |-> max_x_new - min_x_new,
         height |-> max_y_new - min_y_new,
         downsample_factor |->
             DownsampleFactorNew(
                 F32Max(FactorValue(self.downsample_factor),
                        FactorValue(texture.downsample_factor)))]

\* ToplevelTexture::expand. get_bbox returns (min_x, min_y, width, height)
\* and the code binds its last two components to max_x_0 and max_y_0.
ToplevelExpand(self, texture) ==
    IF self.image_path # texture.image_path THEN NoTexture
    ELSE ToplevelExpandAnyPath(self, texture)

ChildTexture(path, coords) == [image_path |-> path, cropped_uv_coords |-> coords]

\* ToplevelTexture::get_child: the frame is texture.get_bbox(); self is not
\* read.
ToplevelGetChild(self, texture) ==
    LET b == GetBbox(texture)
    IN  ChildTexture(texture.image_path,
            GetCroppedUvCoords(texture, b[1], b[2], b[3], b[4]))

----------------------------------------------------------------------------
(* The inputs.                                                             *)

Paths == {"a.png", "b.png"}

\* The f32 values handed to DownsampleFactor::new: every representable
\* multiple of 2^-FracBits from -1/4 to 5/4, and NaN.
FactorInputs ==
    {F32(k) : k \in {j \in (0 - One \div 4)..(One + One \div 4) : Representable(j)}}
        \cup {NaN32}

\* The factors of the polygons.
Factors == {DownsampleFactorNew(F32(k)) : k \in {One \div 2, One}}

\* A polygon of three points whose bounding box is (x1, y1)..(x2, y2); its
\* points coincide or are collinear when x1 = x2 or y1 = y2.
Triangle(x1, y1, x2, y2) == << <<x2, y1>>, <<x1, y2>>, <<x2, y2>> >>

Intervals(n) == {iv \in (0..n) \X (0..n) : iv[1] <= iv[2]}

Shapes ==
    {Triangle(xs[1], ys[1], xs[2], ys[2]) :
        xs \in Intervals(MaxCoord), ys \in Intervals(MaxY)}

\* The struct PolygonMappedTexture (all of its fields are public).
PolygonMappedTexture(path, factor, coords) ==
    [image_path |-> path, downsample_factor |-> factor, pixel_coords |-> coords]

Polygons ==
    {PolygonMappedTexture(p, f, c) : p \in Paths, f \in Factors, c \in Shapes}

----------------------------------------------------------------------------
(* Spec: single calls of the pure operations, each on inputs drawn by Init.*)

NoCall == [op |-> "none"]

IdleMerge == top = NoTexture /\ contrib = <<>> /\ child = NoCall

IdleCrop ==
    /\ cpc = "idle" /\ nthreads = 0 /\ sent = {} /\ senders = 0
    /\ channel = <<>> /\ order = <<>>
    /\ clipped = <<>> /\ writes = <<>> /\ out = <<>>

IdlePack ==
    /\ todo = {} /\ wpc = <<>> /\ witem = <<>> /\ mutex = {} /\ added = <<>>
    /\ ppc = "idle"

Init ==
    /\ \/ \E f \in FactorInputs : call = [op |-> "input", kind |-> "f32", arg |-> f]
       \/ \E a \in Polygons, b \in Polygons :
             call = [op |-> "input", kind |-> "polygons", self |-> a, arg |-> b]
    /\ IdleMerge /\ IdleCrop /\ IdlePack

\* DownsampleFactor::new(&f)
NewFactor ==
    /\ call.op = "input" /\ call.kind = "f32"
    /\ call' = [op |-> "DownsampleFactor::new", arg |-> call.arg,
                res |-> DownsampleFactorNew(call.arg)]
    /\ UNCHANGED <<mergeVars, cropVars, packVars>>

\* a.bbox_overlaps(&b)
Overlaps ==
    /\ call.op = "input" /\ call.kind = "polygons"
    /\ call' = [op |-> "bbox_overlaps", self |-> call.self, arg |-> call.arg,
                res |-> BboxOverlaps(call.self, call.arg)]
    /\ UNCHANGED <<mergeVars, cropVars, packVars>>

\* ToplevelTexture::new(&a).expand(&b)
ExpandCall ==
    /\ call.op = "input" /\ call.kind = "polygons"
    /\ call' = [op |-> "expand", self |-> ToplevelNew(call.self), arg |-> call.arg,
                res |-> ToplevelExpand(ToplevelNew(call.self), call.arg)]
    /\ UNCHANGED <<mergeVars, cropVars, packVars>>

Next == NewFactor \/ Overlaps \/ ExpandCall

Spec == Init /\ [][Next]_vars

----------------------------------------------------------------------------
(* SpecMerge: one toplevel texture, built by new and then grown by expand  *)
(* from polygons of one source image, and asked for its children.          *)

MergePolygons ==
    {PolygonMappedTexture("a.png", DownsampleFactorNew(F32(One)), c) : c \in Shapes}

MergeInit == call = NoCall /\ IdleMerge /\ IdleCrop /\ IdlePack

\* top = ToplevelTexture::new(&p)
New ==
    /\ top = NoTexture
    /\ \E p \in MergePolygons :
          /\ top' = ToplevelNew(p)
          /\ contrib' = <<p>>
    /\ UNCHANGED <<call, child, cropVars, packVars>>

\* if let Some(t) = top.expand(&p) { top = t }
Expand ==
    /\ top # NoTexture
    /\ Len(contrib) < MaxMerge
    /\ \E p \in MergePolygons :
          /\ ToplevelExpand(top, p) # NoTexture
          /\ top' = ToplevelExpand(top, p)
          /\ contrib' = Append(contrib, p)
    /\ UNCHANGED <<call, child, cropVars, packVars>>

\* top.get_child(&p), for a polygon p that top was built from
GetChild ==
    /\ top # NoTexture
    /\ \E i \in 1..Len(contrib) :
          child' = [op |-> "get_child", self |-> top, arg |-> contrib[i],
                    res |-> ToplevelGetChild(top, contrib[i])]
    /\ UNCHANGED <<call, top, contrib, cropVars, packVars>>

MergeNext == New \/ Expand \/ GetChild

SpecMerge == MergeInit /\ [][MergeNext]_vars

----------------------------------------------------------------------------
(* What the claims speak of, defined apart from the operations above.      *)

Least(S) == CHOOSE m \in S : \A n \in S : m <= n
Greatest(S) == CHOOSE m \in S : \A n \in S : m >= n

\* The bounding box of a polygon's pixel coordinates, by its corners.
PolyBox(p) ==
    LET xs == {p.pixel_coords[i][1] : i \in 1..Len(p.pixel_coords)}
        ys == {p.pixel_coords[i][2] : i \in 1..Len(p.pixel_coords)}
    IN  [x1 |-> Least(xs), y1 |-> Least(ys), x2 |-> Greatest(xs), y2 |-> Greatest(ys)]

\* The region of a toplevel texture, by its corners.
RegionBox(t) ==
    [x1 |-> t.origin[1], y1 |-> t.origin[2],
     x2 |-> t.origin[1] + t.width, y2 |-> t.origin[2] + t.height]

BoxUnion(a, b) ==
    [x1 |-> Least({a.x1, b.x1}), y1 |-> Least({a.y1, b.y1}),
     x2 |-> Greatest({a.x2, b.x2}), y2 |-> Greatest({a.y2, b.y2})]

BoxContains(a, b) == a.x1 <= b.x1 /\ a.y1 <= b.y1 /\ b.x2 <= a.x2 /\ b.y2 <= a.y2

InBox(b, x, y) == b.x1 <= x /\ x <= b.x2 /\ b.y1 <= y /\ y <= b.y2

InUnitRange(f) == ~f.nan /\ 0 <= f.k /\ f.k <= One

----------------------------------------------------------------------------
(* The claims checked under Spec.                                          *)

\* C1: expand(P) on T returns nothing when the image paths differ; when they
\* are equal it returns a toplevel texture whose region contains T's region
\* and P's bounding box, is exactly their union, and whose downsample factor
\* is the larger of the two.
C1_ExpandIsBboxUnion ==
    call.op = "expand" =>
        LET T == call.self
            P == call.arg
            R == call.res
        IN  /\ T.image_path # P.image_path => R = NoTexture
            /\ T.image_path = P.image_path =>
                 /\ R.tag = "Some"
                 /\ BoxContains(RegionBox(R), RegionBox(T))
                 /\ BoxContains(RegionBox(R), PolyBox(P))
                 /\ RegionBox(R) = BoxUnion(RegionBox(T), PolyBox(P))
                 /\ R.downsample_factor.tag = "ok"
                 /\ R.downsample_factor.value.k =
                        Greatest({T.downsample_factor.value.k,
                                  P.downsample_factor.value.k})

\* C4: bbox_overlaps is false for different image paths; for equal paths it
\* is true exactly when the two pixel bounding boxes, as closed rectangles,
\* share a point (touching along an edge or at a corner counts).
C4_OverlapsIffClosedBoxesMeet ==
    call.op = "bbox_overlaps" =>
        (call.res <=>
            /\ call.self.image_path = call.arg.image_path
            /\ \E x \in 0..MaxCoord, y \in 0..MaxY :
                  /\ InBox(PolyBox(call.self), x, y)
                  /\ InBox(PolyBox(call.arg), x, y))

\* Two boxes of positive width on one image that share only an edge are
\* reported as overlapping.
C4_EdgeTouchWitness ==
    /\ call.op = "bbox_overlaps"
    /\ call.self.image_path = call.arg.image_path
    /\ PolyBox(call.self).x1 < PolyBox(call.self).x2
    /\ PolyBox(call.self).x2 = PolyBox(call.arg).x1
    /\ PolyBox(call.arg).x1 < PolyBox(call.arg).x2
    /\ call.res

\* C6: DownsampleFactor::new(f) succeeds for 0 <= f <= 1, both bounds
\* included, and value() is then f; for any other f it fails and yields no
\* value: nothing is clamped.
C6_FactorRangeEnforced ==
    call.op = "DownsampleFactor::new" =>
        /\ InUnitRange(call.arg) =>
              call.res.tag = "ok" /\ FactorValue(call.res) = call.arg
        /\ ~InUnitRange(call.arg) => call.res = Panic

\* The upper bound 1.0 is accepted and returned as it is.
C6_UpperBoundWitness ==
    /\ call.op = "DownsampleFactor::new"
    /\ call.arg = F32(One)
    /\ call.res.tag = "ok"
    /\ FactorValue(call.res) = F32(One)

----------------------------------------------------------------------------
(* The claims checked under SpecMerge.                                     *)

RECURSIVE ExpandFrom(_, _)
ExpandFrom(t, s) ==
    IF s = <<>> \/ t = NoTexture THEN t
    ELSE ExpandFrom(ToplevelExpand(t, Head(s)), Tail(s))

\* new on the first polygon of s, then expand on the others, in s's order.
BuildInOrder(s) == ExpandFrom(ToplevelNew(Head(s)), Tail(s))

\* Every ordering of the polygons of s.
Orders(s) ==
    LET n == Len(s)
    IN  {[i \in 1..n |-> s[f[i]]] :
            f \in {g \in [1..n -> 1..n] : \A i, j \in 1..n : g[i] = g[j] => i = j}}

\* The bounding box of all the polygons of s.
UnionOfAll(s) ==
    [x1 |-> Least({PolyBox(s[i]).x1 : i \in 1..Len(s)}),
     y1 |-> Least({PolyBox(s[i]).y1 : i \in 1..Len(s)}),
     x2 |-> Greatest({PolyBox(s[i]).x2 : i \in 1..Len(s)}),
     y2 |-> Greatest({PolyBox(s[i]).y2 : i \in 1..Len(s)})]

\* C2: for polygons of one source image, new on the first and expand on the
\* rest gives, in every order, the same region: the bounding box of all of
\* them.
C2_MergeOrderIndependent ==
    top # NoTexture =>
        \A o \in Orders(contrib) :
            /\ BuildInOrder(o) # NoTexture
            /\ RegionBox(BuildInOrder(o)) = UnionOfAll(contrib)

\* C3: for a toplevel texture T and a polygon P it was built from,
\* get_child(P) gives for every point (px, py) of P
\* u = (px - T.origin.x) / T.width and v = 1 - (py - T.origin.y) / T.height,
\* so that T.origin.x + u * T.width = px and
\* T.origin.y + (1 - v) * T.height = py. (Stated for a P of positive width
\* and height that lies in T's region, where every quotient is defined.)
C3_ChildUvInToplevelFrame ==
    (/\ child.op = "get_child"
     /\ BoxContains(RegionBox(child.self), PolyBox(child.arg))
     /\ PolyBox(child.arg).x1 < PolyBox(child.arg).x2
     /\ PolyBox(child.arg).y1 < PolyBox(child.arg).y2) =>
        LET T == child.self
            P == child.arg
            uv == child.res.cropped_uv_coords
        IN  /\ Len(uv) = Len(P.pixel_coords)
            /\ \A i \in 1..Len(uv) :
                  LET px == P.pixel_coords[i][1]
                      py == P.pixel_coords[i][2]
                      u  == uv[i][1]
                      v  == uv[i][2]
                  IN  /\ u.kind = "num" /\ v.kind = "num"
                      /\ u.num * T.width = (px - T.origin[1]) * u.den
                      /\ (v.den - v.num) * T.height = (py - T.origin[2]) * v.den
                      /\ T.origin[1] * u.den + u.num * T.width = px * u.den
                      /\ T.origin[2] * v.den + (v.den - v.num) * T.height = py * v.den

\* C7: every coordinate of get_child(P).cropped_uv_coords is a number
\* between 0 and 1, also when P's bounding box has no width or no height.
C7_ChildUvInUnitSquare ==
    child.op = "get_child" =>
        \A i \in 1..Len(child.res.cropped_uv_coords) :
            \A c \in 1..2 :
                LET q == child.res.cropped_uv_coords[i][c]
                IN  q.kind = "num" /\ 0 <= q.num /\ q.num <= q.den

----------------------------------------------------------------------------
(* ToplevelTexture::crop                                                   *)

\* The pixel of the source image at (x, y): opaque, and different at every
\* position.
SourcePixel(x, y) == [rgb |-> 1 + x + y * ImageWidth, opaque |-> TRUE]

\* The pixel of a fresh ImageBuffer: all channels zero, alpha included.
ZeroPixel == [rgb |-> 0, opaque |-> FALSE]

\* cropped_image.enumerate_pixels().collect(): the pixels of the view
\* (x, y, width, height) of the image, row by row, each with its position.
Pixels(t) ==
    [i \in 1..(t.width * t.height) |->
        LET px == (i - 1) % t.width
            py == (i - 1) \div t.width
        IN  <<px, py, SourcePixel(t.origin[1] + px, t.origin[2] + py)>>]

\* (pixels.len() / num_threads).clamp(1, pixels.len() + 1)
ChunkSize(len, num_threads) ==
    LET q == len \div num_threads
    IN  IF q < 1 THEN 1 ELSE IF q > len + 1 THEN len + 1 ELSE q

NumChunksExact(len, chunk_size) == len \div chunk_size

\* par_chunks(chunk_size): the last chunk may be shorter.
NumChunks(len, chunk_size) == (len + chunk_size - 1) \div chunk_size

\* The c-th chunk of the pixels.
Chunk(t, c) ==
    LET len  == t.width * t.height
        size == ChunkSize(len, nthreads)
        from == (c - 1) * size + 1
        to   == IF c * size < len THEN c * size ELSE len
    IN  SubSeq(Pixels(t), from, to)

\* The containment test of a pixel's centre: the call of
\* is_point_inside_polygon is commented out and the condition is `true`.
IsInside(t, px, py) == TRUE

\* The closure's local_results: both branches of `if is_inside` push the
\* pixel with its position.
LocalResults(t, chunk) ==
    [i \in 1..Len(chunk) |->
        IF IsInside(t, chunk[i][1], chunk[i][2])
        THEN <<chunk[i][1], chunk[i][2], chunk[i][3]>>
        ELSE <<chunk[i][1], chunk[i][2], chunk[i][3]>>]

Positions(t) == (0..(t.width - 1)) \X (0..(t.height - 1))

\* for (px, py, pixel) in received { clipped.put_pixel(px, py, pixel) }
RECURSIVE PutAll(_, _)
PutAll(buf, received) ==
    IF received = <<>> THEN buf
    ELSE PutAll([buf EXCEPT ![<<Head(received)[1], Head(received)[2]>>] =
                     Head(received)[3]],
                Tail(received))

RECURSIVE CountAll(_, _)
CountAll(w, received) ==
    IF received = <<>> THEN w
    ELSE CountAll([w EXCEPT ![<<Head(received)[1], Head(received)[2]>>] = @ + 1],
                  Tail(received))

\* (n as f32 * factor) as u32: n is rounded to an f32, the product is
\* rounded to an f32, and the cast drops the fraction.
ScaledSize(n, factor) == RoundSig(RoundSig(n) * factor.k) \div One

----------------------------------------------------------------------------
(* SpecCrop: crop on a toplevel texture made from one polygon of the       *)
(* source image.                                                           *)

CropShapes ==
    {Triangle(xs[1], ys[1], xs[2], ys[2]) :
        xs \in Intervals(ImageWidth), ys \in Intervals(ImageHeight)}

CropFactors == {DownsampleFactorNew(f) : f \in FactorInputs} \ {Panic}

CropPolygons ==
    {PolygonMappedTexture("a.png", f, c) : f \in CropFactors, c \in CropShapes}

CropInit ==
    /\ call = NoCall /\ child = NoCall /\ IdleCrop /\ IdlePack
    /\ \E p \in CropPolygons : contrib = <<p>> /\ top = ToplevelNew(p)

\* crop is entered: the view is taken, the pixels are collected, the chunk
\* size is computed and the channel is made.
CropBegin ==
    /\ cpc = "idle"
    /\ \E n \in 1..MaxThreads : nthreads' = n
    /\ senders' = 1
    /\ cpc' = "par"
    /\ UNCHANGED <<call, mergeVars, packVars, sent, channel, order, clipped, writes, out>>

\* The closure of for_each_with runs on one chunk and sends its results.
\* It sends through the sender for_each_with owns or through a clone made
\* for the job and dropped with it, so the sender of for_each_with is the one
\* handle alive between two jobs; send on the unbounded channel of
\* mpsc::channel() never waits.
RunChunk ==
    /\ cpc = "par"
    /\ \E c \in 1..NumChunks(top.width * top.height,
                            ChunkSize(top.width * top.height, nthreads)) :
          /\ c \notin sent
          /\ sent' = sent \cup {c}
          /\ channel' = Append(channel, LocalResults(top, Chunk(top, c)))
          /\ order' = Append(order, c)
    /\ UNCHANGED <<call, mergeVars, packVars, cpc, nthreads, senders, clipped, writes, out>>

SendersAfterForEachWithClone(n) == 1

\* for_each_with(sender, ...) takes the sender by value: when it returns, the
\* sender and every clone made of it have been dropped.
SendersAfterForEachWith(n) == 0

\* for_each_with returns when every chunk has run; the sender and its clones
\* are dropped; clipped = ImageBuffer::new(width, height).
ParDone ==
    /\ cpc = "par"
    /\ sent = 1..NumChunks(top.width * top.height,
                          ChunkSize(top.width * top.height, nthreads))
    /\ cpc' = "collect"
    /\ clipped' = [pos \in Positions(top) |-> ZeroPixel]
    /\ writes' = [pos \in Positions(top) |-> 0]
    /\ senders' = SendersAfterForEachWith(senders)
    /\ UNCHANGED <<call, mergeVars, packVars, nthreads, sent, channel, order, out>>

\* One turn of `for received in receiver`.
Receive ==
    /\ cpc = "collect"
    /\ channel # <<>>
    /\ clipped' = PutAll(clipped, Head(channel))
    /\ writes' = CountAll(writes, Head(channel))
    /\ channel' = Tail(channel)
    /\ UNCHANGED <<call, mergeVars, packVars, cpc, nthreads, sent, senders, order, out>>

\* The iterator of the Receiver ends: no message is queued and no Sender is
\* alive.  With a Sender alive and nothing queued, recv waits.
Disconnected == channel = <<>> /\ senders = 0

\* The receiver is exhausted; the buffer is resized and returned.
Downsample ==
    /\ cpc = "collect"
    /\ Disconnected
    /\ out' = [width  |-> ScaledSize(top.width, FactorValue(top.downsample_factor)),
               height |-> ScaledSize(top.height, FactorValue(top.downsample_factor))]
    /\ cpc' = "done"
    /\ UNCHANGED <<call, mergeVars, packVars, nthreads, sent, senders, channel, order,
                   clipped, writes>>

CropNext == CropBegin \/ RunChunk \/ ParDone \/ Receive \/ Downsample

SpecCrop == CropInit /\ [][CropNext]_vars

----------------------------------------------------------------------------
(* The claims checked under SpecCrop.                                      *)

\* Whether the centre (px + 1/2, py + 1/2) of the source pixel (px, py) lies
\* inside the polygon p, by the even-odd rule on a ray towards +x; all
\* coordinates are doubled to stay whole.
CentreInside(p, px, py) ==
    LET n  == Len(p.pixel_coords)
        X  == 2 * px + 1
        Y  == 2 * py + 1
        vx(i) == 2 * p.pixel_coords[i][1]
        vy(i) == 2 * p.pixel_coords[i][2]
        nxt(i) == IF i = n THEN 1 ELSE i + 1
        crosses(i) ==
            LET dy == vy(nxt(i)) - vy(i)
                lhs == (X - vx(i)) * dy
                rhs == (Y - vy(i)) * (vx(nxt(i)) - vx(i))
            IN  /\ (vy(i) > Y) # (vy(nxt(i)) > Y)
                /\ IF dy > 0 THEN lhs < rhs ELSE lhs > rhs
    IN  Cardinality({i \in 1..n : crosses(i)}) % 2 = 1

Assembled == cpc = "done" \/ (cpc = "collect" /\ channel = <<>>)

\* C5: in the buffer crop assembles, a pixel whose centre lies outside every
\* contributing polygon is fully transparent, and a pixel whose centre lies
\* inside one carries the source image's pixel.
C5_OutsidePixelsTransparent ==
    Assembled =>
        \A pos \in Positions(top) :
            LET x == top.origin[1] + pos[1]
                y == top.origin[2] + pos[2]
            IN  IF \E i \in 1..Len(contrib) : CentreInside(contrib[i], x, y)
                THEN clipped[pos] = SourcePixel(x, y)
                ELSE ~clipped[pos].opaque

C9_OutputIsFloorOfScaled ==
    cpc = "done" =>
        LET k == FactorValue(top.downsample_factor).k
        IN  /\ out.width = (top.width * k) \div One
            /\ out.height = (top.height * k) \div One
            /\ out.width <= top.width
            /\ out.height <= top.height

----------------------------------------------------------------------------
(* SpecPack: the parallel packing of examples/test_random_polygon.rs.      *)
(* polygons.par_iter().for_each hands every polygon to one of the worker   *)
(* threads; the closure looks up the image size, builds the cropped        *)
(* texture, and calls add_texture on the packer behind the Mutex.          *)

Workers == 1..NumWorkers
PolygonIds == 1..NumPolygons

PackInit ==
    /\ call = NoCall /\ IdleMerge /\ IdleCrop
    /\ todo = PolygonIds
    /\ wpc = [w \in Workers |-> "idle"]
    /\ witem = [w \in Workers |-> {}]
    /\ mutex = {}
    /\ added = <<>>
    /\ ppc = "par_iter"

MutexFreeUnchecked == TRUE

\* Mutex::lock returns only while no other guard is alive.
MutexFree == mutex = {}

\* par_iter hands the worker a polygon.
Take(w) ==
    /\ ppc = "par_iter" /\ wpc[w] = "idle"
    /\ \E i \in todo :
          /\ todo' = todo \ {i}
          /\ witem' = [witem EXCEPT ![w] = {i}]
    /\ wpc' = [wpc EXCEPT ![w] = "size"]
    /\ UNCHANGED <<call, mergeVars, cropVars, mutex, added, ppc>>

\* texture_size_cache.get_or_insert(&polygon.texture_uri)
SizeLookup(w) ==
    /\ wpc[w] = "size"
    /\ wpc' = [wpc EXCEPT ![w] = "new"]
    /\ UNCHANGED <<call, mergeVars, cropVars, todo, witem, mutex, added, ppc>>

\* CroppedTexture::new(...)
NewCropped(w) ==
    /\ wpc[w] = "new"
    /\ wpc' = [wpc EXCEPT ![w] = "lock"]
    /\ UNCHANGED <<call, mergeVars, cropVars, todo, witem, mutex, added, ppc>>

\* packer.lock().unwrap(): the guard is taken and add_texture is entered.
Lock(w) ==
    /\ wpc[w] = "lock"
    /\ MutexFree
    /\ mutex' = mutex \cup {w}
    /\ wpc' = [wpc EXCEPT ![w] = "add_texture"]
    /\ UNCHANGED <<call, mergeVars, cropVars, todo, witem, added, ppc>>

\* .add_texture(polygon.id.clone(), cropped_texture) runs and returns.
AddTexture(w) ==
    /\ wpc[w] = "add_texture"
    /\ \E i \in witem[w] : added' = Append(added, i)
    /\ wpc' = [wpc EXCEPT ![w] = "unlock"]
    /\ UNCHANGED <<call, mergeVars, cropVars, todo, witem, mutex, ppc>>

\* The statement ends and the guard is dropped.
Unlock(w) ==
    /\ wpc[w] = "unlock"
    /\ mutex' = mutex \ {w}
    /\ wpc' = [wpc EXCEPT ![w] = "print"]
    /\ UNCHANGED <<call, mergeVars, cropVars, todo, witem, added, ppc>>

\* println!(...); the closure returns.
PrintDone(w) ==
    /\ wpc[w] = "print"
    /\ wpc' = [wpc EXCEPT ![w] = "idle"]
    /\ witem' = [witem EXCEPT ![w] = {}]
    /\ UNCHANGED <<call, mergeVars, cropVars, todo, mutex, added, ppc>>

ForEachReturnedEarly == todo = {}

\* par_iter().for_each(...) blocks its caller until the closure has returned
\* for every polygon: none is left to hand out and no worker is inside it.
ForEachReturned ==
    /\ todo = {}
    /\ \A w \in Workers : wpc[w] = "idle"

\* for_each has returned; packer.into_inner().unwrap()
IntoInner ==
    /\ ppc = "par_iter"
    /\ ForEachReturned
    /\ ppc' = "into_inner"
    /\ UNCHANGED <<call, mergeVars, cropVars, todo, wpc, witem, mutex, added>>

\* packer.pack(GuillotineTexturePlacer::new(config.clone()))
Pack ==
    /\ ppc = "into_inner"
    /\ ppc' = "pack"
    /\ UNCHANGED <<call, mergeVars, cropVars, todo, wpc, witem, mutex, added>>

PackNext ==
    \/ \E w \in Workers :
          \/ Take(w) \/ SizeLookup(w) \/ NewCropped(w) \/ Lock(w)
          \/ AddTexture(w) \/ Unlock(w) \/ PrintDone(w)
    \/ IntoInner
    \/ Pack

SpecPack == PackInit /\ [][PackNext]_vars

----------------------------------------------------------------------------
(* The claims checked under SpecPack.                                      *)

InAddTexture(w) == wpc[w] \in {"add_texture", "unlock"}

\* C10: in every interleaving of the workers at most one of them is inside
\* packer.add_texture (between taking the guard and dropping it) at a time.
C10_AddTextureExclusive ==
    \A v, w \in Workers : (InAddTexture(v) /\ InAddTexture(w)) => v = w

\* One worker is inside add_texture while another builds its cropped
\* texture and a third polygon is still waiting.
C10_OverlapWitness ==
    /\ ppc = "par_iter"
    /\ \E v, w \in Workers :
          /\ v # w
          /\ wpc[v] = "add_texture"
          /\ wpc[w] = "new"
    /\ todo # {}

\* How many times add_texture has been called with the polygon id i.
TimesAdded(i) == Cardinality({k \in 1..Len(added) : added[k] = i})

\* C11: in every interleaving, once into_inner has been reached, and so
\* whenever pack begins or has begun, every input polygon id has been added
\* to the packer exactly once, no worker is still running the closure, and
\* the Mutex is not held.
C11_PackAfterAllAdded ==
    ppc \in {"into_inner", "pack"} =>
        /\ \A i \in PolygonIds : TimesAdded(i) = 1
        /\ Len(added) = NumPolygons
        /\ \A w \in Workers : wpc[w] = "idle" /\ witem[w] = {}
        /\ mutex = {}

\* pack has begun after the workers added the polygons in an order other
\* than that of the input.
C11_PackBegunWitness ==
    /\ ppc = "pack"
    /\ Len(added) = NumPolygons
    /\ \E k \in 1..(Len(added) - 1) : added[k] > added[k + 1]

----------------------------------------------------------------------------
(* The termination of crop's collection phase, checked under SpecCrop.     *)

MaxPixels == ImageWidth * ImageHeight

\* The chunks par_chunks makes of the pixels of top.
AllChunks ==
    1..NumChunks(top.width * top.height,
                 ChunkSize(top.width * top.height, nthreads))

\* How many messages the receiver loop has taken from the channel.
Received == Len(order) - Len(channel)

\* A quantity that every step of crop makes smaller.
CropMeasure ==
    LET rank == CASE cpc = "idle" -> 3
                  [] cpc = "par" -> 2
                  [] cpc = "collect" -> 1
                  [] OTHER -> 0
        unsent == IF cpc = "par" THEN Cardinality(AllChunks \ sent) ELSE 0
    IN  rank * (2 * MaxPixels + 1) + 2 * unsent + Len(channel)

\* What holds in every state of crop.
C12_CollectionSafe ==
    \* the chunk size is at least 1 for every pixel count and thread count
    /\ cpc = "idle" =>
          \A len \in 0..MaxPixels, n \in 1..MaxThreads : ChunkSize(len, n) >= 1
    /\ cpc # "idle" =>
          /\ nthreads >= 1
          /\ ChunkSize(top.width * top.height, nthreads) >= 1
          \* each chunk that has run has sent exactly one message
          /\ sent \subseteq AllChunks
          /\ Len(order) = Cardinality(sent)
          /\ \A c \in sent : Cardinality({k \in 1..Len(order) : order[k] = c}) = 1
    \* no worker waits on send: every chunk that has not run can run
    /\ (cpc = "par" /\ sent # AllChunks) => ENABLED RunChunk
    /\ cpc = "par" => senders >= 1
    \* after the parallel stage every chunk has sent and no sender is alive
    /\ cpc \in {"collect", "done"} => (sent = AllChunks /\ senders = 0)
    \* the loop has ended after one message per chunk
    /\ cpc = "done" =>
          /\ channel = <<>>
          /\ Received = Cardinality(AllChunks)
    \* no deadlock: crop has returned or can take a step
    /\ cpc = "done" \/ ENABLED CropNext

\* C12: the collection phase of crop always terminates.  For every pixel
\* count (0 included) and every thread count >= 1 the chunk size is at
\* least 1, each chunk sends exactly one message, every sender handle is
\* dropped when the parallel stage finishes, the receiver loop ends after
\* exactly one message per chunk, no worker waits on send, no state short of
\* the return of crop is stuck, and every step brings the return closer.
C12_CollectionTerminates ==
    /\ []C12_CollectionSafe
    /\ [][CropMeasure' < CropMeasure]_vars

\* crop has returned after several chunks were sent and received one by
\* one.
C12_SeveralChunksWitness ==
    /\ cpc = "done"
    /\ nthreads >= 2
    /\ Cardinality(AllChunks) >= 3
    /\ Received = Cardinality(AllChunks)

====
